---- MODULE Spec2Model ----
(***************************************************************************)
(* Model of the agent orchestration engine of the conversational commerce  *)
(* assistant: the LangGraph state machine built by create_agent_graph      *)
(* (agent_logic.py for the OpenAI-compatible backend, agent_graph.py for   *)
(* the Ollama backend), the tool wrappers of sap_client.py and             *)
(* mcp_client_utils.py, the MCP server handler call_tool, and the chat     *)
(* entry point on_message of app.py.                                       *)
(*                                                                         *)
(* Library behaviour the graph is built on, as used by the source:         *)
(*  - StateGraph with `messages: Annotated[..., operator.add]`: a node's   *)
(*    returned message list is concatenated to the stored one; `next` is   *)
(*    overwritten by the node that returns it.                             *)
(*  - ToolNode(tools): runs the tool calls of the last assistant message   *)
(*    concurrently (asyncio.gather), returns one ToolMessage per call in   *)
(*    the order of the calls; a name that is not among its tools yields an *)
(*    error ToolMessage without running anything; an exception raised by a *)
(*    tool is turned into an error ToolMessage (handle_tool_errors=True).  *)
(*  - compile(checkpointer=MemorySaver()): the state is saved per          *)
(*    thread_id after every step; a run with a new input starts at the     *)
(*    entry point, a run with no input continues at the pending node.      *)
(*  - recursion_limit: at most that many steps run in one invocation; a    *)
(*    run that has used them up without reaching END raises                *)
(*    GraphRecursionError.                                                 *)
(***************************************************************************)
EXTENDS Integers, Sequences, FiniteSets, TLC

----------------------------------------------------------------------------
(* Bounds of the model *)

\* user turns per session
MaxTurns == 2
\* the configured recursion_limit (app.py sets 100, the tests 50), scaled down
RecursionLimit == 5
\* tool-call requests in one assistant message
MaxCallsPerMsg == 2
\* tool-call requests the model emits over a whole run of the system
MaxToolCalls == 2
\* steps executed for one session, over all its runs
MaxSteps == 7
\* length, in tokens, of a Router response text of RouterSpec
MaxTextLen == 4
\* steps executed for the two sessions of PairSpec together
MaxPairSteps == 4

----------------------------------------------------------------------------
(* Sessions, graph nodes *)

\* the chat sessions: each has its own thread_id
Sessions == {"t1", "t2"}

\* the session whose runs Spec follows
Solo == {"t1"}

\* every session configured with one and the same thread_id
SharedThreadId(s) == "t1"

\* app.py on_chat_start: the checkpoint key of a session is its own id
thread_id(s) == s

Impls == {"agent_logic", "agent_graph"}

Specialists == {"SearchAgent", "CartAgent"}

ToolsNodes == {"SearchTools", "CartTools"}

Nodes == {"Supervisor"} \cup Specialists \cup ToolsNodes

\* "continue" edges that lead to the other specialist's Tools node
CrossedTools(agent) == IF agent = "SearchAgent" THEN "CartTools" ELSE "SearchTools"

\* the Tools node paired with a specialist: the "continue" edges
ToolsOf(agent) == IF agent = "SearchAgent" THEN "SearchTools" ELSE "CartTools"

\* edges that hand the tool results to the Supervisor
ToolsToSupervisor(tools) == "Supervisor"

\* the specialist a Tools node loops back to: add_edge(Tools, Agent)
AgentOf(tools) == IF tools = "SearchTools" THEN "SearchAgent" ELSE "CartAgent"

----------------------------------------------------------------------------
(* Sequences *)

Range(s) == {s[i] : i \in 1..Len(s)}

IsPrefix(s, t) == Len(s) <= Len(t) /\ SubSeq(t, 1, Len(s)) = s

SeqsUpTo(S, n) == UNION {[1..k -> S] : k \in 0..n}

\* Python's `needle in text`, on sequences
Contains(text, needle) ==
    \E i \in 1..(Len(text) - Len(needle) + 1) :
        SubSeq(text, i, i + Len(needle) - 1) = needle

----------------------------------------------------------------------------
(* Router response texts and the decision parsing of supervisor_node.      *)
(* A text is a sequence of tokens; a token is a run of characters that     *)
(* shares no boundary-crossing occurrence of a specialist name with its    *)
(* neighbours, so `name in text` on the characters is Contains on the      *)
(* tokens. " " is whitespace, "search" and "agent" are lower-case words.   *)

Tokens == {"Search", "Cart", "Agent", "FINISH", "search", "agent", " "}

Whitespace == {" "}

SearchAgentName == <<"Search", "Agent">>

CartAgentName == <<"Cart", "Agent">>

FinishName == <<"FINISH">>

\* every text of at most MaxTextLen tokens
AllTexts == SeqsUpTo(Tokens, MaxTextLen)

\* the texts the Router answers with in the full graph
RouterTexts ==
    { SearchAgentName, CartAgentName, FinishName }

\* str.strip(): leading and trailing whitespace removed
RECURSIVE LStrip(_)
LStrip(text) ==
    IF text # <<>> /\ Head(text) \in Whitespace THEN LStrip(Tail(text)) ELSE text

RECURSIVE RStrip(_)
RStrip(text) ==
    IF text # <<>> /\ text[Len(text)] \in Whitespace
    THEN RStrip(SubSeq(text, 1, Len(text) - 1))
    ELSE text

Strip(text) == RStrip(LStrip(text))

\* a Router that accepts the bare name only
DecideExactName(text) ==
    IF text = SearchAgentName THEN "SearchAgent"
    ELSE IF text = CartAgentName THEN "CartAgent"
    ELSE "FINISH"

\* a Router that falls back to a specialist
DecideDefaultSearch(text) ==
    IF Contains(text, CartAgentName) THEN "CartAgent" ELSE "SearchAgent"

\* a Router that tests the names in the other order
DecideCartFirst(text) ==
    IF Contains(text, CartAgentName) THEN "CartAgent"
    ELSE IF Contains(text, SearchAgentName) THEN "SearchAgent"
    ELSE "FINISH"

\* a Router that looks for the completion sentinel before the names
DecideFinishFirst(text) ==
    IF Contains(text, FinishName) THEN "FINISH"
    ELSE IF Contains(text, SearchAgentName) THEN "SearchAgent"
    ELSE IF Contains(text, CartAgentName) THEN "CartAgent"
    ELSE "FINISH"

\* the if / elif / else of supervisor_node
Decide(text) ==
    IF Contains(text, SearchAgentName) THEN "SearchAgent"
    ELSE IF Contains(text, CartAgentName) THEN "CartAgent"
    ELSE "FINISH"

\* conditional edges on which FINISH leads back to a specialist
EdgeWithoutEnd(decision) == IF decision = "FINISH" THEN "SearchAgent" ELSE decision

\* the conditional edges of Supervisor: the node the decision leads to
SupervisorEdge(decision) == IF decision = "FINISH" THEN "END" ELSE decision

----------------------------------------------------------------------------
(* Tool registries and the split into the specialists' subsets *)

SapClientTools ==
    <<"search_products", "get_product_details", "create_cart", "add_to_cart",
      "update_cart_entry", "get_cart", "place_order">>

McpClientUtilsTools ==
    <<"search_products", "get_product_details", "create_cart", "add_to_cart",
      "get_cart", "place_order">>

RagTool == "vector_search"

\* get_mcp_tools() of the module the graph imports
McpTools(g) == IF g = "agent_logic" THEN SapClientTools ELSE McpClientUtilsTools

\* the words of a tool name; `"cart" in t.name` is membership of the word
NameParts(name) ==
    CASE name = "search_products"     -> {"search", "products"}
      [] name = "get_product_details" -> {"get", "product", "details"}
      [] name = "create_cart"         -> {"create", "cart"}
      [] name = "add_to_cart"         -> {"add", "to", "cart"}
      [] name = "update_cart_entry"   -> {"update", "cart", "entry"}
      [] name = "get_cart"            -> {"get", "cart"}
      [] name = "place_order"         -> {"place", "order"}
      [] name = "vector_search"       -> {"vector", "search"}

search_tools(g) ==
    {t \in Range(McpTools(g)) : "search" \in NameParts(t) \/ "details" \in NameParts(t)}
        \cup {RagTool}

cart_tools(g) ==
    {t \in Range(McpTools(g)) : "cart" \in NameParts(t) \/ "order" \in NameParts(t)}

\* Tools nodes that are both built with every tool
EveryTool(node, g) == search_tools(g) \cup cart_tools(g)

\* the tools a ToolNode was built with
ToolNodeTools(node, g) == IF node = "SearchTools" THEN search_tools(g) ELSE cart_tools(g)

\* the tool names the model puts in its tool-call requests
EmittedNames == {"vector_search", "add_to_cart"}

----------------------------------------------------------------------------
(* One tool invocation.  The remote call ends in one of RemoteOutcomes:    *)
(*   ok          the server handler returned the backend's answer          *)
(*   handler_exc the server handler caught an exception of its own         *)
(*   is_error    the MCP result carries isError                            *)
(*   conn_fail   the SSE connection could not be opened or broke           *)

RemoteOutcomes == {"ok", "handler_exc", "is_error", "conn_fail"}

\* the outcomes of the vector store behind vector_search
VectorOutcomes == {"ok", "conn_fail"}

OutcomesOf(name) == IF name = RagTool THEN VectorOutcomes ELSE RemoteOutcomes

\* server.py call_tool: the text content the handler answers with
call_tool(outcome) ==
    IF outcome = "handler_exc" THEN "Error: <exception>" ELSE "<result>"

\* the CallToolResult the client session receives (not for conn_fail)
CallToolResult(outcome) ==
    IF outcome = "is_error"
    THEN [isError |-> TRUE, text |-> "<mcp error>"]
    ELSE [isError |-> FALSE, text |-> call_tool(outcome)]

Returned(v) == [raised |-> FALSE, value |-> v]

Raised == [raised |-> TRUE, value |-> "<exception>"]

\* sap_client.py execute_mcp_tool: everything is caught
SapExecuteMcpTool(outcome) ==
    IF outcome = "conn_fail" THEN Returned("Error executing tool: <exception>")
    ELSE IF CallToolResult(outcome).isError
         THEN Returned("Tool execution error: <result>")
         ELSE Returned(CallToolResult(outcome).text)

\* mcp_client_utils.py execute_mcp_tool: no try / except
UtilsExecuteMcpTool(outcome) ==
    IF outcome = "conn_fail" THEN Raised
    ELSE Returned(CallToolResult(outcome).text)

\* vector_search / rag_search: search_products_vector is called unguarded
VectorSearch(outcome) ==
    IF outcome = "conn_fail" THEN Raised ELSE Returned("<products>")

\* awaiting the coroutine of the tool `name`
InvokeTool(g, name, outcome) ==
    IF name = RagTool THEN VectorSearch(outcome)
    ELSE IF g = "agent_logic" THEN SapExecuteMcpTool(outcome)
    ELSE UtilsExecuteMcpTool(outcome)

\* a ToolNode that lets the exceptions of its tools through
tool_errors_propagate == FALSE

\* ToolNode(tools) is built with the default handle_tool_errors
handle_tool_errors == TRUE

\* ToolNode, one call.  invoked: the tool ran; raised: its coroutine raised;
\* escaped: the exception left the ToolNode; content: of the ToolMessage
RunOne(node, g, name, outcome) ==
    IF name \notin ToolNodeTools(node, g)
    THEN [invoked |-> FALSE, raised |-> FALSE, escaped |-> FALSE,
          content |-> "Error: not a valid tool"]
    ELSE LET r == InvokeTool(g, name, outcome)
         IN  [invoked |-> TRUE, raised |-> r.raised,
              escaped |-> r.raised /\ ~handle_tool_errors,
              content |-> IF r.raised
                          THEN "Error: <exception> Please fix your mistakes."
                          ELSE r.value]

\* the contents that report a tool failure
ToolErrorContents ==
    { "Error: <exception>", "Tool execution error: <result>",
      "Error executing tool: <exception>", "<mcp error>",
      "Error: <exception> Please fix your mistakes.", "Error: not a valid tool" }

----------------------------------------------------------------------------
(* Messages *)

HumanMessage(text) ==
    [role |-> "user", content |-> text, tool_calls |-> <<>>, tool_call_id |-> 0]

AIMessage(text, calls) ==
    [role |-> "assistant", content |-> text, tool_calls |-> calls, tool_call_id |-> 0]

\* a tool result that does not name the request it answers
ToolMessageWithoutId(text, id) ==
    [role |-> "tool", content |-> text, tool_calls |-> <<>>, tool_call_id |-> 0]

ToolMessage(text, id) ==
    [role |-> "tool", content |-> text, tool_calls |-> <<>>, tool_call_id |-> id]

UserInputs == {"Find me a digital camera"}

\* a graph compiled without a checkpointer: a run starts from nothing
NoCheckpointer(store, key) == <<>>

\* compile(checkpointer=MemorySaver()): a run starts from the state stored
\* under its thread_id
LoadCheckpoint(store, key) == store[key]

\* the window of agent_logic.py: state["messages"][-6:]
W == 6

\* msgs[-W:]: the last W messages, all of them when there are fewer
Window(msgs) ==
    SubSeq(msgs, IF Len(msgs) > W THEN Len(msgs) - W + 1 ELSE 1, Len(msgs))

\* the messages supervisor_node and agent_node pass to the model:
\* agent_logic.py cuts the window in both, agent_graph.py passes the
\* whole state["messages"] in both
ModelInput(g, msgs) == IF g = "agent_logic" THEN Window(msgs) ELSE msgs

\* a scheduler that does not count the steps of the Tools nodes
ToolsStepsFree(node) == IF node \in ToolsNodes THEN 0 ELSE 1

\* every node that runs is one step of the recursion limit
StepCost(node) == 1

\* app.py on_message, after the stream has ended: the content it sends
on_message_reply(msgs) ==
    IF msgs # <<>> THEN msgs[Len(msgs)].content ELSE "Task completed."

\* a graph whose run starts where the stored `next` points
StartAtStoredNext(stored) ==
    IF stored = "FINISH" THEN "END"
    ELSE IF stored \in Specialists THEN stored ELSE "Supervisor"

\* workflow.set_entry_point("Supervisor"): the node a run with an input
\* starts at, whatever the checkpoint holds
entry_point(stored) == "Supervisor"

\* a channel that keeps the first value written to it
KeepFirstValue(old, update) == IF old = "" THEN update ELSE old

\* AgentState.next is declared without a reducer: a node's update of it
\* replaces the stored value
WriteNext(old, update) == update

\* a channel without a reducer: the update replaces the stored value
OverwriteMessages(old, update) == update

\* the reducer of AgentState.messages: operator.add
AddMessages(old, update) == old \o update

\* an edge function that never continues to the Tools node
never_continue(msgs) == "end"

\* should_continue: the edge taken after an Agent Node
should_continue(msgs) ==
    IF msgs[Len(msgs)].tool_calls # <<>> THEN "continue" ELSE "end"

AgentEdge(agent, msgs) ==
    IF should_continue(msgs) = "continue" THEN ToolsOf(agent) ELSE "Supervisor"

----------------------------------------------------------------------------
(* The language model's answers *)

\* the tool-call requests of one response: names, in the order emitted
CallNameLists == SeqsUpTo(EmittedNames, MaxCallsPerMsg) \ {<<>>}

\* requests numbered from `first`: the ids are fresh
MakeCalls(names, first) ==
    [i \in 1..Len(names) |-> [id |-> first + i - 1, name |-> names[i]]]

\* what a bound model answers an Agent Node with
AgentResponses ==
    {[kind |-> "text", names |-> <<>>], [kind |-> "error", names |-> <<>>]}
        \cup {[kind |-> "tool_calls", names |-> n] : n \in CallNameLists}

\* agent_logic.py agent_node: the update it returns; a failure is caught
LogicAgentNode(response, first) ==
    IF response.kind = "error"
    THEN [raised |-> FALSE,
          messages |-> <<AIMessage("Error executing agent logic: <exception>", <<>>)>>]
    ELSE IF response.kind = "text"
    THEN [raised |-> FALSE, messages |-> <<AIMessage("<answer>", <<>>)>>]
    ELSE [raised |-> FALSE,
          messages |-> <<AIMessage("", MakeCalls(response.names, first))>>]

\* agent_graph.py agent_node: no try / except
GraphAgentNode(response, first) ==
    IF response.kind = "error"
    THEN [raised |-> TRUE, messages |-> <<>>]
    ELSE IF response.kind = "text"
    THEN [raised |-> FALSE, messages |-> <<AIMessage("<answer>", <<>>)>>]
    ELSE [raised |-> FALSE,
          messages |-> <<AIMessage("", MakeCalls(response.names, first))>>]

\* an Agent Node that returns its answer twice
AgentNodeRepeating(g, response, first) ==
    LET out == LogicAgentNode(response, first)
    IN  [raised |-> FALSE, messages |-> out.messages \o out.messages]

agent_node(g, response, first) ==
    IF g = "agent_logic" THEN LogicAgentNode(response, first)
    ELSE GraphAgentNode(response, first)

----------------------------------------------------------------------------
(* ToolNode: the join of the concurrently run calls.  `done` holds, in     *)
(* completion order, the index of each finished call and its result.       *)

ResultOf(done, i) == (CHOOSE d \in Range(done) : d.idx = i).res

\* the requests of every message of the state, oldest first
RECURSIVE AllCallsInHistory(_)
AllCallsInHistory(msgs) ==
    IF msgs = <<>> THEN <<>>
    ELSE AllCallsInHistory(SubSeq(msgs, 1, Len(msgs) - 1)) \o msgs[Len(msgs)].tool_calls

\* the requests a ToolNode runs: those of the last message of the state
CallsToRun(msgs) ==
    IF msgs = <<>> THEN <<>> ELSE msgs[Len(msgs)].tool_calls

\* the results in the order in which the calls finished
OutputInCompletionOrder(calls, done) ==
    [k \in 1..Len(done) |-> ToolMessage(done[k].res.content, calls[done[k].idx].id)]

\* the results of the calls that succeeded only
OutputWithoutFailures(calls, done) ==
    LET Succeeded(m) == m.content \notin ToolErrorContents
    IN  SelectSeq([i \in 1..Len(calls) |->
                      ToolMessage(ResultOf(done, i).content, calls[i].id)],
                  Succeeded)

\* one ToolMessage per request, in the order of the requests
ToolNodeOutput(calls, done) ==
    [i \in 1..Len(calls) |-> ToolMessage(ResultOf(done, i).content, calls[i].id)]

\* a ToolNode that writes each result into the state when its call finishes
ResultWhenFinished(call, res) == <<ToolMessage(res.content, call.id)>>

\* ToolNode awaits asyncio.gather over all calls and returns its output
\* once: a call that finishes writes nothing into the state
WritesBeforeJoin(call, res) == <<>>

----------------------------------------------------------------------------
(* State *)

VARIABLES
    graph,       \* the module whose create_agent_graph built the app
    messages,    \* checkpointed AgentState.messages, per thread_id
    next,        \* checkpointed AgentState.next, per thread_id
    pc,          \* the node the checkpoint names as next to run, or "END"
    status,      \* of the last run: "idle", "running", "done", "error"
    stepCount,   \* steps executed by the current run
    totalSteps,  \* steps executed for the session, over all its runs
    turns,       \* user messages handled, per session
    completed,   \* the finished calls of the last Tools step, as they finished
    invoked,     \* how often each tool-call request has been executed
    nextId,      \* the next fresh tool-call id
    routerText,  \* the response text of the last Router call
    handler,     \* on_message of the session: "idle" or "streaming"
    sent,        \* the contents on_message has sent to the user, per session
    decisions,   \* the Router decisions of the current turn, per session
    modelInput,  \* the messages passed to the model by the last model call
    runs,        \* OverlapSpec: the runs of two overlapping turns of one session
    server       \* ServerSpec: the last request handled by call_tool

vars == <<graph, messages, next, pc, status, stepCount, totalSteps, turns,
          completed, invoked, nextId, routerText, handler, sent, decisions,
          modelInput, runs, server>>

CallIds == 1..MaxToolCalls

\* the two user messages of one session whose handling overlaps
RunIds == {1, 2}

\* what each of them says
OverlapInputs == <<"Find me a digital camera", "Add the first camera you found to my cart">>

\* the session they belong to
OverlapSession == "t1"

\* a run that has not started: phase, pending node, and the channel values
\* the run holds in memory
NoRun == [phase |-> "none", pc |-> "END", msgs |-> <<>>, next |-> "", steps |-> 0]

\* server before any request
NoRequest == [name |-> "", args |-> {}, backend |-> "", called |-> {},
              isText |-> TRUE, text |-> ""]

\* routerText before the Router was called in a run
NoText == <<"<no call>">>

Init ==
    /\ graph \in Impls
    /\ messages = [s \in Sessions |-> <<>>]
    /\ next = [s \in Sessions |-> ""]
    /\ pc = [s \in Sessions |-> "END"]
    /\ status = [s \in Sessions |-> "idle"]
    /\ stepCount = [s \in Sessions |-> 0]
    /\ totalSteps = [s \in Sessions |-> 0]
    /\ turns = [s \in Sessions |-> 0]
    /\ completed = [s \in Sessions |-> <<>>]
    /\ invoked = [c \in CallIds |-> 0]
    /\ nextId = 1
    /\ routerText = [s \in Sessions |-> NoText]
    /\ handler = [s \in Sessions |-> "idle"]
    /\ sent = [s \in Sessions |-> <<>>]
    /\ decisions = [s \in Sessions |-> {}]
    /\ modelInput = [s \in Sessions |-> <<>>]
    /\ runs = [r \in RunIds |-> NoRun]
    /\ server = NoRequest

Running(s) == status[s] = "running"

\* a scheduler that never counts its steps
UnlimitedBudget(s) == TRUE

\* the run may execute one more step
HasBudget(s) == stepCount[s] < RecursionLimit

\* the session is within the steps the model follows it for
Followed(s) == totalSteps[s] < MaxSteps

LastMessage(s) == messages[s][Len(messages[s])]

\* on_message around a step that leaves the run in `outcome` with the
\* messages `msgs` stored: while the stream goes on it waits; when the
\* stream ends at END it sends the content of the last stored message;
\* an exception of the stream leaves on_message and nothing is sent
OnMessage(s, outcome, msgs) ==
    /\ handler' = [handler EXCEPT ![s] = IF outcome = "running" THEN @ ELSE "idle"]
    /\ sent' = [sent EXCEPT ![s] =
                  IF handler[s] = "streaming" /\ outcome = "done"
                  THEN Append(@, on_message_reply(msgs))
                  ELSE @]

----------------------------------------------------------------------------
(* Operations *)

\* app.py on_message: app.astream({"messages": [HumanMessage]}, config).
\* The input is added to the stored messages and the run starts at the
\* entry point, whatever node the checkpoint had pending.
NewTurn(s) ==
    /\ status[s] # "running"
    /\ turns[s] < MaxTurns
    /\ \E text \in UserInputs :
        messages' = [messages EXCEPT ![thread_id(s)] =
                        AddMessages(LoadCheckpoint(messages, thread_id(s)),
                                    <<HumanMessage(text)>>)]
    /\ pc' = [pc EXCEPT ![s] = entry_point(next[s])]
    /\ status' = [status EXCEPT ![s] = "running"]
    /\ stepCount' = [stepCount EXCEPT ![s] = 0]
    /\ turns' = [turns EXCEPT ![s] = @ + 1]
    /\ completed' = [completed EXCEPT ![s] = <<>>]
    /\ routerText' = [routerText EXCEPT ![s] = NoText]
    /\ handler' = [handler EXCEPT ![s] = "streaming"]
    /\ decisions' = [decisions EXCEPT ![s] = {}]
    /\ UNCHANGED <<graph, next, totalSteps, invoked, nextId, sent, runs, modelInput, server>>

\* supervisor_node and the conditional edges of Supervisor.  The Router
\* call is not guarded: when it fails the exception ends the run.
Supervisor(s, texts) ==
    /\ Running(s) /\ pc[s] = "Supervisor" /\ HasBudget(s) /\ Followed(s)
    /\ \/ /\ status' = [status EXCEPT ![s] = "error"]
          /\ OnMessage(s, "error", messages[s])
          /\ modelInput' = [modelInput EXCEPT ![s] = ModelInput(graph, messages[s])]
          /\ UNCHANGED <<graph, messages, next, pc, stepCount, totalSteps, turns,
                         completed, invoked, nextId, routerText, decisions,
                         runs, server>>
       \/ \E response \in texts :
            LET decision == Decide(Strip(response)) IN
            /\ routerText' = [routerText EXCEPT ![s] = response]
            /\ next' = [next EXCEPT ![s] = WriteNext(@, decision)]
            /\ pc' = [pc EXCEPT ![s] = SupervisorEdge(decision)]
            /\ status' = [status EXCEPT ![s] =
                            IF SupervisorEdge(decision) = "END" THEN "done" ELSE @]
            /\ stepCount' = [stepCount EXCEPT ![s] = @ + StepCost(pc[s])]
            /\ totalSteps' = [totalSteps EXCEPT ![s] = @ + 1]
            /\ decisions' = [decisions EXCEPT ![s] = @ \cup {decision}]
            /\ OnMessage(s, status'[s], messages[s])
            /\ modelInput' = [modelInput EXCEPT ![s] = ModelInput(graph, messages[s])]
            /\ UNCHANGED <<graph, messages, turns, completed, invoked, nextId,
                           runs, server>>

\* agent_node of a specialist and should_continue
AgentNode(s) ==
    /\ Running(s) /\ pc[s] \in Specialists /\ HasBudget(s) /\ Followed(s)
    /\ \E response \in AgentResponses :
        LET out == agent_node(graph, response, nextId) IN
        /\ nextId + Len(response.names) - 1 <= MaxToolCalls
        /\ IF out.raised
           THEN /\ status' = [status EXCEPT ![s] = "error"]
                /\ UNCHANGED <<messages, pc, stepCount, totalSteps, nextId>>
           ELSE /\ messages' = [messages EXCEPT ![thread_id(s)] =
                                   AddMessages(@, out.messages)]
                /\ pc' = [pc EXCEPT ![s] = AgentEdge(pc[s], messages'[s])]
                /\ stepCount' = [stepCount EXCEPT ![s] = @ + StepCost(pc[s])]
                /\ totalSteps' = [totalSteps EXCEPT ![s] = @ + 1]
                /\ nextId' = nextId + Len(response.names)
                /\ UNCHANGED status
    /\ completed' = [completed EXCEPT ![s] = <<>>]
    /\ OnMessage(s, status'[s], messages'[s])
    /\ modelInput' = [modelInput EXCEPT ![s] = ModelInput(graph, messages[s])]
    /\ UNCHANGED <<graph, next, turns, invoked, routerText, decisions, runs, server>>

\* the indices of the calls of the running Tools step that have not finished
PendingCalls(s) ==
    {i \in 1..Len(CallsToRun(messages[s])) :
        \A k \in 1..Len(completed[s]) : completed[s][k].idx # i}

\* ToolNode: one of the concurrently running calls finishes.  An exception
\* that leaves the ToolNode ends the run; the step's writes are not saved.
ToolCallCompletes(s) ==
    /\ Running(s) /\ pc[s] \in ToolsNodes /\ HasBudget(s) /\ Followed(s)
    /\ \E i \in PendingCalls(s) :
        LET call == CallsToRun(messages[s])[i]
            bound == call.name \in ToolNodeTools(pc[s], graph)
        IN  \E outcome \in (IF bound THEN OutcomesOf(call.name) ELSE {"ok"}) :
              LET res == RunOne(pc[s], graph, call.name, outcome) IN
              /\ completed' = [completed EXCEPT ![s] =
                                 Append(@, [idx |-> i, name |-> call.name,
                                            outcome |-> outcome, res |-> res])]
              /\ invoked' = IF res.invoked
                            THEN [invoked EXCEPT ![call.id] = @ + 1]
                            ELSE invoked
              /\ status' = [status EXCEPT ![s] = IF res.escaped THEN "error" ELSE @]
              /\ messages' = [messages EXCEPT ![thread_id(s)] =
                                AddMessages(@, WritesBeforeJoin(call, res))]
    /\ OnMessage(s, status'[s], messages[s])
    /\ UNCHANGED <<graph, next, pc, stepCount, totalSteps, turns,
                   nextId, routerText, decisions, runs, modelInput, server>>

\* ToolNode: all calls have finished; the results are added and the edge
\* back to the specialist is taken
ToolsJoin(s) ==
    /\ Running(s) /\ pc[s] \in ToolsNodes /\ HasBudget(s) /\ Followed(s)
    /\ PendingCalls(s) = {}
    /\ messages' = [messages EXCEPT ![thread_id(s)] =
                      AddMessages(@, ToolNodeOutput(CallsToRun(messages[s]),
                                                    completed[s]))]
    /\ pc' = [pc EXCEPT ![s] = AgentOf(pc[s])]
    /\ stepCount' = [stepCount EXCEPT ![s] = @ + StepCost(pc[s])]
    /\ totalSteps' = [totalSteps EXCEPT ![s] = @ + 1]
    /\ UNCHANGED <<graph, next, status, turns, completed, invoked, nextId, routerText,
                   handler, sent, decisions, runs, modelInput, server>>

\* recursion_limit: the steps are used up and END was not reached
StepLimit(s) ==
    /\ Running(s) /\ ~HasBudget(s)
    /\ status' = [status EXCEPT ![s] = "error"]
    /\ OnMessage(s, "error", messages[s])
    /\ UNCHANGED <<graph, messages, next, pc, stepCount, totalSteps, turns,
                   completed, invoked, nextId, routerText, decisions, runs, modelInput, server>>

\* a run with no input on the thread: it continues at the pending node with
\* a new step budget; a finished checkpoint has no pending node
Resume(s) ==
    /\ status[s] \in {"done", "error"}
    /\ IF pc[s] = "END"
       THEN UNCHANGED <<status, stepCount, completed, routerText>>
       ELSE /\ status' = [status EXCEPT ![s] = "running"]
            /\ stepCount' = [stepCount EXCEPT ![s] = 0]
            /\ completed' = [completed EXCEPT ![s] = <<>>]
            /\ routerText' = [routerText EXCEPT ![s] = NoText]
    /\ UNCHANGED <<graph, messages, next, pc, totalSteps, turns, invoked, nextId,
                   handler, sent, decisions, runs, modelInput, server>>

Next ==
    \E s \in Solo :
        \/ NewTurn(s)
        \/ Supervisor(s, RouterTexts)
        \/ AgentNode(s)
        \/ ToolCallCompletes(s)
        \/ ToolsJoin(s)
        \/ StepLimit(s)
        \/ Resume(s)

Spec == Init /\ [][Next]_vars

\* the Router alone, on every response text of at most MaxTextLen tokens
RouterNext ==
    \E s \in Solo :
        \/ NewTurn(s)
        \/ Supervisor(s, AllTexts)

RouterSpec == Init /\ [][RouterNext]_vars

\* the steps the two sessions have executed together
PairSteps == totalSteps["t1"] + totalSteps["t2"]

\* two chat sessions, each with its own thread_id, their steps interleaved;
\* the sessions are followed for fewer steps than the ceiling allows
PairNext ==
    \E s \in Sessions :
        /\ PairSteps < MaxPairSteps
        /\ \/ NewTurn(s)
           \/ Supervisor(s, RouterTexts)
           \/ AgentNode(s)
           \/ ToolCallCompletes(s)
           \/ ToolsJoin(s)
           \/ Resume(s)

PairSpec == Init /\ [][PairNext]_vars

----------------------------------------------------------------------------
(* The MCP server: TOOLS and the handler call_tool of server.py, applied   *)
(* to a tool name and the set of argument fields the request carries.      *)

ServerTools ==
    {"search_products", "get_product_details", "create_cart", "add_to_cart",
     "update_cart_entry", "get_cart", "set_delivery_address",
     "set_delivery_mode", "place_order"}

AddressFields ==
    {"first_name", "last_name", "line1", "town", "postal_code", "country_isocode"}

\* inputSchema.properties of a tool
Properties(name) ==
    CASE name = "search_products"      -> {"query", "page_size"}
      [] name = "get_product_details"  -> {"product_code"}
      [] name = "create_cart"          -> {}
      [] name = "add_to_cart"          -> {"cart_id", "product_code", "quantity"}
      [] name = "update_cart_entry"    -> {"cart_id", "entry_number", "quantity"}
      [] name = "get_cart"             -> {"cart_id"}
      [] name = "set_delivery_address" -> {"cart_id"} \cup AddressFields
      [] name = "set_delivery_mode"    -> {"cart_id", "mode"}
      [] name = "place_order"          -> {"cart_id"}
      [] OTHER                         -> {}

\* inputSchema.required of a tool
Required(name) ==
    CASE name = "search_products"      -> {"query"}
      [] name = "get_product_details"  -> {"product_code"}
      [] name = "create_cart"          -> {}
      [] name = "add_to_cart"          -> {"cart_id", "product_code"}
      [] name = "update_cart_entry"    -> {"cart_id", "entry_number", "quantity"}
      [] name = "get_cart"             -> {"cart_id"}
      [] name = "set_delivery_address" -> {"cart_id"} \cup AddressFields
      [] name = "set_delivery_mode"    -> {"cart_id", "mode"}
      [] name = "place_order"          -> {"cart_id"}
      [] OTHER                         -> {}

\* a handler that reads every argument with arguments.get(...)
ReadWithGet(name) == {}

\* the fields the branch of call_tool reads with arguments[...], all of
\* them while the arguments of the client call are evaluated; page_size
\* and the quantity of add_to_cart are read with arguments.get
Subscripted(name) ==
    CASE name = "search_products"      -> {"query"}
      [] name = "get_product_details"  -> {"product_code"}
      [] name = "create_cart"          -> {}
      [] name = "add_to_cart"          -> {"cart_id", "product_code"}
      [] name = "update_cart_entry"    -> {"cart_id", "entry_number", "quantity"}
      [] name = "get_cart"             -> {"cart_id"}
      [] name = "set_delivery_address" -> AddressFields \cup {"cart_id"}
      [] name = "set_delivery_mode"    -> {"cart_id", "mode"}
      [] name = "place_order"          -> {"cart_id"}
      [] OTHER                         -> {}

\* what the SAPOCCClient method does once it is called
BackendOutcomes == {"ok", "exc"}

\* call_tool(name, arguments): the client methods it invoked and the text
\* of the TextContent it returns; every exception is caught
CallToolHandler(name, args, backend) ==
    IF name \notin ServerTools
    THEN [called |-> {}, isText |-> TRUE, text |-> "Error: Unknown tool"]
    ELSE IF ~(Subscripted(name) \subseteq args)
    THEN [called |-> {}, isText |-> TRUE, text |-> "Error: <KeyError>"]
    ELSE IF backend = "exc"
    THEN [called |-> {name}, isText |-> TRUE, text |-> "Error: <exception>"]
    ELSE [called |-> {name}, isText |-> TRUE, text |-> "<result>"]

\* a request arrives at the server
ServerCall ==
    /\ \E name \in ServerTools \cup {"unknown_tool"} :
        \E args \in SUBSET Properties(name) :
            \E backend \in BackendOutcomes :
                LET res == CallToolHandler(name, args, backend) IN
                server' = [name |-> name, args |-> args, backend |-> backend,
                           called |-> res.called, isText |-> res.isText,
                           text |-> res.text]
    /\ UNCHANGED <<graph, messages, next, pc, status, stepCount, totalSteps, turns,
                   completed, invoked, nextId, routerText, handler, sent,
                   decisions, modelInput, runs>>

ServerNext == ServerCall

ServerSpec == Init /\ [][ServerNext]_vars

----------------------------------------------------------------------------
(* A crash of the application process.  MemorySaver keeps the checkpoints  *)
(* in the memory of the process, and so does the chat framework with the   *)
(* graph and the config of a session: after the crash a session has        *)
(* nothing stored and no run.                                              *)

ProcessCrash ==
    /\ \E s \in Solo : messages[s] # <<>>
    /\ messages' = [s \in Sessions |-> <<>>]
    /\ next' = [s \in Sessions |-> ""]
    /\ pc' = [s \in Sessions |-> "END"]
    /\ status' = [s \in Sessions |-> "idle"]
    /\ stepCount' = [s \in Sessions |-> 0]
    /\ completed' = [s \in Sessions |-> <<>>]
    /\ routerText' = [s \in Sessions |-> NoText]
    /\ handler' = [s \in Sessions |-> "idle"]
    /\ decisions' = [s \in Sessions |-> {}]
    /\ modelInput' = [s \in Sessions |-> <<>>]
    /\ UNCHANGED <<graph, totalSteps, turns, invoked, nextId, sent, runs, server>>

CrashNext == Next \/ ProcessCrash

CrashSpec == Init /\ [][CrashNext]_vars

----------------------------------------------------------------------------
(* An external call that never answers.  llm is built without a timeout    *)
(* (ChatOpenAI / ChatOllama with base_url, model and temperature only),    *)
(* execute_mcp_tool passes none to sse_client or call_tool, and no node    *)
(* wraps its await in one: the node waits for as long as the peer is       *)
(* silent.                                                                  *)

CallHangs(s) ==
    /\ Running(s) /\ HasBudget(s) /\ Followed(s)
    /\ pc[s] \in ToolsNodes => PendingCalls(s) # {}
    /\ status' = [status EXCEPT ![s] = "blocked"]
    /\ UNCHANGED <<graph, messages, next, pc, stepCount, totalSteps, turns,
                   completed, invoked, nextId, routerText, handler, sent,
                   decisions, modelInput, runs, server>>

HangNext == Next \/ \E s \in Solo : CallHangs(s)

HangSpec == Init /\ [][HangNext]_vars

----------------------------------------------------------------------------
(* Cancellation of a turn in flight (the client disconnects, the task of   *)
(* on_message is cancelled): CancelledError is raised at the await the     *)
(* node is in and leaves the stream.  The checkpoint of a step is written  *)
(* when the step has returned, so the writes of the step that was cut are  *)
(* not stored.                                                              *)

\* a store that receives each tool result as its call finishes
CompletedCallResults(s) ==
    IF pc[s] \in ToolsNodes
    THEN OutputInCompletionOrder(CallsToRun(messages[s]), completed[s])
    ELSE <<>>

\* what reaches the store of the step that was cut: nothing
AbortedStepWrites(s) == <<>>

Cancel(s) ==
    /\ Running(s)
    /\ status' = [status EXCEPT ![s] = "cancelled"]
    /\ messages' = [messages EXCEPT ![thread_id(s)] =
                      AddMessages(@, AbortedStepWrites(s))]
    /\ OnMessage(s, "cancelled", messages'[s])
    /\ UNCHANGED <<graph, next, pc, stepCount, totalSteps, turns, completed,
                   invoked, nextId, routerText, decisions, modelInput, runs, server>>

CancelNext == Next \/ \E s \in Solo : Cancel(s)

CancelSpec == Init /\ [][CancelNext]_vars

----------------------------------------------------------------------------
(* Two turns of one session at overlapping times.  on_message takes no     *)
(* lock: each call starts its own run of the graph on the same thread_id.  *)
(* A run loads the checkpoint of the thread once, when it starts, keeps    *)
(* the channel values in memory, and after its input and after each of its *)
(* steps puts them as the newest checkpoint of the thread.  A step is in   *)
(* progress from the moment the node awaits its model call until its       *)
(* checkpoint is put.                                                       *)

\* the specialists of the overlapping turns answer without tool calls
OverlapResponses == {r \in AgentResponses : r.names = <<>>}

\* the newest checkpoint of the thread becomes the values the run holds
PutCheckpoint(s, run) ==
    /\ messages' = [messages EXCEPT ![thread_id(s)] = run.msgs]
    /\ next' = [next EXCEPT ![thread_id(s)] = run.next]
    /\ pc' = [pc EXCEPT ![thread_id(s)] = run.pc]

\* on_message is called with the r-th user message: app.astream(inputs)
OverlapOnMessage(r) ==
    LET s == OverlapSession
        run == [phase |-> "ready", pc |-> "Supervisor",
                msgs |-> AddMessages(LoadCheckpoint(messages, thread_id(s)),
                                     <<HumanMessage(OverlapInputs[r])>>),
                next |-> next[thread_id(s)], steps |-> 0]
    IN  /\ runs[r].phase = "none"
        /\ \A q \in RunIds : q < r => runs[q].phase # "none"
        /\ runs' = [runs EXCEPT ![r] = run]
        /\ PutCheckpoint(s, run)
        /\ turns' = [turns EXCEPT ![s] = @ + 1]
        /\ UNCHANGED <<graph, status, stepCount, totalSteps, completed, invoked,
                       nextId, routerText, handler, sent, decisions, modelInput, server>>

\* the pending node of run r starts: it awaits its model call
OverlapStepBegins(r) ==
    /\ runs[r].phase = "ready"
    /\ runs[r].steps < RecursionLimit
    /\ runs' = [runs EXCEPT ![r].phase = "in_step"]
    /\ UNCHANGED <<graph, messages, next, pc, status, stepCount, totalSteps, turns,
                   completed, invoked, nextId, routerText, handler, sent,
                   decisions, modelInput, server>>

\* the model call of the node failed and nothing caught it: the exception
\* leaves the stream and on_message
OverlapStepRaises(r) ==
    /\ runs[r].phase = "in_step"
    /\ \/ runs[r].pc = "Supervisor"
       \/ /\ runs[r].pc \in Specialists
          /\ \E response \in OverlapResponses :
                agent_node(graph, response, nextId).raised
    /\ runs' = [runs EXCEPT ![r].phase = "raised"]
    /\ UNCHANGED <<graph, messages, next, pc, status, stepCount, totalSteps, turns,
                   completed, invoked, nextId, routerText, handler, sent,
                   decisions, modelInput, server>>

\* the node of run r returns: its update is applied to the values the run
\* holds, the edge is taken and the checkpoint is put
OverlapStepEnds(r) ==
    LET s == OverlapSession
        old == runs[r]
    IN  /\ old.phase = "in_step"
        /\ \E run \in
              IF old.pc = "Supervisor"
              THEN { [old EXCEPT !.next = Decide(Strip(text)),
                                 !.pc = SupervisorEdge(Decide(Strip(text))),
                                 !.steps = @ + 1,
                                 !.phase = IF SupervisorEdge(Decide(Strip(text))) = "END"
                                           THEN "stream_done" ELSE "ready"]
                     : text \in RouterTexts }
              ELSE { [old EXCEPT !.msgs = AddMessages(@, out.messages),
                                 !.pc = AgentEdge(old.pc, AddMessages(old.msgs, out.messages)),
                                 !.steps = @ + 1,
                                 !.phase = "ready"]
                     : out \in { o \in { agent_node(graph, response, nextId) :
                                          response \in OverlapResponses } : ~o.raised } } :
              /\ runs' = [runs EXCEPT ![r] = run]
              /\ PutCheckpoint(s, run)
        /\ UNCHANGED <<graph, status, stepCount, totalSteps, turns, completed,
                       invoked, nextId, routerText, handler, sent, decisions, modelInput, server>>

\* recursion_limit: run r has used its steps up without reaching END
OverlapStepLimit(r) ==
    /\ runs[r].phase = "ready"
    /\ runs[r].steps >= RecursionLimit
    /\ runs' = [runs EXCEPT ![r].phase = "raised"]
    /\ UNCHANGED <<graph, messages, next, pc, status, stepCount, totalSteps, turns,
                   completed, invoked, nextId, routerText, handler, sent,
                   decisions, modelInput, server>>

\* the stream of run r has ended: on_message reads the newest state of the
\* thread and sends the content of its last message
OverlapReply(r) ==
    LET s == OverlapSession IN
    /\ runs[r].phase = "stream_done"
    /\ runs' = [runs EXCEPT ![r].phase = "ended"]
    /\ sent' = [sent EXCEPT ![s] =
                  Append(@, on_message_reply(LoadCheckpoint(messages, thread_id(s))))]
    /\ UNCHANGED <<graph, messages, next, pc, status, stepCount, totalSteps, turns,
                   completed, invoked, nextId, routerText, handler, decisions, modelInput, server>>

OverlapNext ==
    \E r \in RunIds :
        \/ OverlapOnMessage(r)
        \/ OverlapStepBegins(r)
        \/ OverlapStepRaises(r)
        \/ OverlapStepEnds(r)
        \/ OverlapStepLimit(r)
        \/ OverlapReply(r)

OverlapSpec == Init /\ [][OverlapNext]_vars

----------------------------------------------------------------------------
(* Properties *)

\* a step of the scheduler for session s: a node runs to its end
NodeStep(s) ==
    Supervisor(s, RouterTexts) \/ AgentNode(s) \/ ToolCallCompletes(s) \/ ToolsJoin(s)

\* C1: the message sequence of every session is append-only: whatever step
\* is taken (a node, a new turn, a run with no input, the step ceiling),
\* the stored messages before it are a prefix of the messages after it.
C1_AppendOnly ==
    [][\A s \in Sessions : IsPrefix(messages[s], messages'[s])]_vars

\* two turns, a tool cycle in the history, and a second turn's messages
\* added behind it
C1_Witness ==
    \E s \in Sessions :
        /\ turns[s] = 2
        /\ Len(messages[s]) >= 5
        /\ \E k \in 1..Len(messages[s]) : messages[s][k].role = "tool"
        /\ LastMessage(s).role = "assistant"

\* C2: a run never executes more than recursion_limit steps; it reaches
\* Done only through a FINISH decision, so with a Router that never
\* answers FINISH it cannot end normally; and a run that has used its
\* budget up can do nothing but end in the error state.
C2_StepCeiling ==
    \A s \in Sessions :
        /\ stepCount[s] <= RecursionLimit
        /\ status[s] = "done" => next[s] = "FINISH"
        /\ (Running(s) /\ stepCount[s] >= RecursionLimit) =>
                /\ ENABLED StepLimit(s)
                /\ ~ENABLED NodeStep(s)

\* a first run whose Router chose a specialist every time, ended by the
\* ceiling after exactly recursion_limit steps
C2_Witness ==
    \E s \in Sessions :
        /\ status[s] = "error"
        /\ turns[s] = 1
        /\ stepCount[s] = RecursionLimit
        /\ totalSteps[s] = RecursionLimit
        /\ next[s] \in Specialists
        /\ pc[s] # "END"

\* C3: the tool-result messages that follow an assistant message stand in
\* the order of its tool-call requests: the i-th result carries the
\* tool_call_id of the i-th request, in whatever order the calls finished.
C3_ResultsInRequestOrder ==
    \A s \in Sessions :
        \A k \in 1..(Len(messages[s]) - 1) :
            LET calls == messages[s][k].tool_calls IN
            (calls # <<>> /\ messages[s][k + 1].role = "tool") =>
                /\ k + Len(calls) <= Len(messages[s])
                /\ \A i \in 1..Len(calls) :
                      /\ messages[s][k + i].role = "tool"
                      /\ messages[s][k + i].tool_call_id = calls[i].id

\* a Tools step has ended whose second call finished before its first
C3_Witness ==
    \E s \in Sessions :
        /\ pc[s] \in Specialists
        /\ Len(completed[s]) = 2
        /\ completed[s][1].idx = 2
        /\ completed[s][2].idx = 1
        /\ LastMessage(s).role = "tool"
        /\ Len(messages[s]) >= 3
        /\ messages[s][Len(messages[s]) - 2].tool_calls # <<>>

\* the messages a step added to session s
Added(s) == SubSeq(messages'[s], Len(messages[s]) + 1, Len(messages'[s]))

\* the Tools step of session s ends
ToolsStepEnds(s) == Running(s) /\ pc[s] \in ToolsNodes /\ pc'[s] # pc[s]

\* C4: a Tools step adds exactly one tool-result message for every request
\* of the assistant message, with that request's tool_call_id, and the
\* result of a call that failed is among them with the failure as content.
C4_OneResultPerRequest ==
    [][\A s \in Sessions :
        ToolsStepEnds(s) =>
            LET calls == LastMessage(s).tool_calls IN
            /\ Len(Added(s)) = Len(calls)
            /\ \A j \in 1..Len(Added(s)) : Added(s)[j].role = "tool"
            /\ \A i \in 1..Len(calls) :
                  Cardinality({j \in 1..Len(Added(s)) :
                                 Added(s)[j].tool_call_id = calls[i].id}) = 1
            /\ \A d \in Range(completed[s]) :
                  \E j \in 1..Len(Added(s)) :
                      /\ Added(s)[j].tool_call_id = calls[d.idx].id
                      /\ Added(s)[j].content = d.res.content]_vars

\* a Tools step of two requests has ended, one of whose tools failed
C4_Witness ==
    \E s \in Sessions :
        /\ pc[s] \in Specialists
        /\ Len(completed[s]) = 2
        /\ \E d \in Range(completed[s]) : d.res.invoked /\ d.outcome # "ok"
        /\ \E d \in Range(completed[s]) : d.res.invoked /\ d.outcome = "ok"
        /\ LastMessage(s).role = "tool"
        /\ messages[s][Len(messages[s]) - 1].role = "tool"

HasResult(msgs, id) ==
    \E k \in 1..Len(msgs) : msgs[k].role = "tool" /\ msgs[k].tool_call_id = id

TurnStart(s) ==
    CHOOSE k \in 1..Len(messages[s]) :
        /\ messages[s][k].role = "user"
        /\ \A j \in (k + 1)..Len(messages[s]) : messages[s][j].role # "user"

\* every tool result of the current turn is followed by an assistant
\* message without tool calls, and the last message is such a message
AnswerFollowsResults(s) ==
    \A k \in (TurnStart(s) + 1)..Len(messages[s]) :
        messages[s][k].role = "tool" =>
            /\ \E j \in (k + 1)..Len(messages[s]) :
                  messages[s][j].role = "assistant" /\ messages[s][j].tool_calls = <<>>
            /\ LastMessage(s).role = "assistant"

\* C9: a tool that fails or answers with an error string does not end the
\* run: while a Tools step runs within its budget the run stays running,
\* the step ends in the paired specialist with the error text as content of
\* the tool result, and a turn that reaches Done has produced its final
\* assistant message after every tool result of the turn.
C9_ToolErrorKeepsTurn ==
    [][\A s \in Sessions :
        /\ (Running(s) /\ pc[s] \in ToolsNodes /\ HasBudget(s)) =>
              /\ status'[s] = "running"
              /\ pc'[s] \in {pc[s], AgentOf(pc[s])}
              /\ pc'[s] # pc[s] =>
                    \A d \in Range(completed[s]) :
                        d.outcome # "ok" =>
                            /\ d.res.content \in ToolErrorContents
                            /\ \E j \in 1..Len(Added(s)) :
                                  Added(s)[j] =
                                      ToolMessage(d.res.content,
                                                  LastMessage(s).tool_calls[d.idx].id)
        /\ status'[s] = "done" => AnswerFollowsResults(s)']_vars

\* add_to_cart, run by CartTools, came back with the server's error
\* string; CartAgent answered after it and the turn is Done
C9_Witness ==
    \E s \in Sessions :
        /\ status[s] = "done"
        /\ LastMessage(s).role = "assistant"
        /\ \E k \in (TurnStart(s) + 2)..(Len(messages[s]) - 1) :
              /\ messages[s][k] = ToolMessage("Error: <exception>",
                                              messages[s][k - 1].tool_calls[1].id)
              /\ messages[s][k - 1].tool_calls[1].name = "add_to_cart"

\* C10 as claimed: the invocation of a tool of get_mcp_tools returns a
\* string whatever happens to the remote call; it never raises.
C10_McpToolsNeverRaise ==
    \A s \in Sessions :
        \A d \in Range(completed[s]) :
            (d.res.invoked /\ d.name \in Range(McpTools(graph))) => ~d.res.raised

----------------------------------------------------------------------------
(* The Router's decision, checked under RouterSpec on every text *)

\* the Router has answered in the current run of s
RouterAnswered(s) == routerText[s] # NoText

\* C6: a response text that contains a specialist name anywhere, whatever
\* surrounds it, is decided as a specialist and not as FINISH, and the run
\* goes to that specialist; a text with "CartAgent" and without
\* "SearchAgent" is decided as CartAgent.
C6_SubstringMatch ==
    \A s \in Sessions :
        RouterAnswered(s) =>
            /\ (Contains(routerText[s], SearchAgentName)
                    \/ Contains(routerText[s], CartAgentName)) =>
                  (next[s] \in Specialists /\ pc[s] = next[s] /\ Running(s))
            /\ (Contains(routerText[s], CartAgentName)
                    /\ ~Contains(routerText[s], SearchAgentName)) =>
                  next[s] = "CartAgent"

\* the Router answered with "CartAgent" between other words, with
\* whitespace around, and the run went to CartAgent
C6_Witness ==
    \E s \in Sessions :
        /\ routerText[s] = <<" ", "Cart", "Agent", "agent">>
        /\ next[s] = "CartAgent"
        /\ pc[s] = "CartAgent"

\* C7: a response text that contains neither specialist name, the empty
\* text included, is decided as FINISH, and the run goes from Supervisor
\* to Done.
C7_DefaultFinish ==
    \A s \in Sessions :
        (/\ RouterAnswered(s)
         /\ ~Contains(routerText[s], SearchAgentName)
         /\ ~Contains(routerText[s], CartAgentName)) =>
            (next[s] = "FINISH" /\ pc[s] = "END" /\ status[s] = "done")

\* the Router answered with the empty text and the run is Done
C7_Witness ==
    \E s \in Sessions :
        routerText[s] = <<>> /\ next[s] = "FINISH" /\ status[s] = "done"

\* the position of the first occurrence of a name in a text that has it
FirstAt(text, name) ==
    CHOOSE i \in 1..Len(text) :
        /\ SubSeq(text, i, i + Len(name) - 1) = name
        /\ \A j \in 1..(i - 1) : SubSeq(text, j, j + Len(name) - 1) # name

BothNames(text) == Contains(text, SearchAgentName) /\ Contains(text, CartAgentName)

\* C8 as claimed: of two specialist names in the text, the one that occurs
\* first in the text is the decision.
C8_EarliestNameWins ==
    \A s \in Sessions :
        (RouterAnswered(s) /\ BothNames(routerText[s])) =>
            next[s] = (IF FirstAt(routerText[s], SearchAgentName)
                            < FirstAt(routerText[s], CartAgentName)
                       THEN "SearchAgent" ELSE "CartAgent")

\* C8 as the code has it: the names are tested in a fixed order, so a text
\* with both names is decided as SearchAgent wherever they stand.
C8_SearchAgentTestedFirst ==
    \A s \in Sessions :
        (RouterAnswered(s) /\ BothNames(routerText[s])) =>
            (next[s] = "SearchAgent" /\ pc[s] = "SearchAgent")

\* "CartAgent" stands before "SearchAgent" and the decision is SearchAgent
C8_Witness ==
    \E s \in Sessions :
        /\ routerText[s] = <<"Cart", "Agent", "Search", "Agent">>
        /\ next[s] = "SearchAgent"

----------------------------------------------------------------------------
(* Model failures, the reply of on_message, turns *)

\* the step changed what is stored or pending for session s
Moved(s) == <<messages[s], status[s], pc[s]>>' # <<messages[s], status[s], pc[s]>>

\* C11 as claimed: an Agent Node step, the one whose model call fails
\* included, does not end the run: it adds exactly one assistant message
\* and goes on to the next node, in both graph implementations.
C11_AgentFailureKeepsTurn ==
    [][\A s \in Sessions :
        (Running(s) /\ pc[s] \in Specialists /\ HasBudget(s) /\ Moved(s)) =>
            /\ status'[s] = "running"
            /\ Len(Added(s)) = 1
            /\ Added(s)[1].role = "assistant"
            /\ pc'[s] \in {ToolsOf(pc[s]), "Supervisor"}]_vars

\* C12 as claimed: whenever on_message is not in progress it has sent
\* exactly one message for every turn it handled, however the turn ended.
C12_OneReplyPerTurn ==
    \A s \in Sessions : handler[s] = "idle" => Len(sent[s]) = turns[s]

\* C13 as claimed: when the step ceiling ends the run of a turn, on_message
\* sends one message to the user and the stored state stays as the steps
\* before the ceiling left it.
C13_CeilingReplyAndCheckpoint ==
    [][\A s \in Sessions :
        (Running(s) /\ ~HasBudget(s) /\ handler[s] = "streaming"
            /\ status'[s] = "error") =>
            /\ Len(sent'[s]) = Len(sent[s]) + 1
            /\ messages'[s] = messages[s]
            /\ next'[s] = next[s]
            /\ pc'[s] = pc[s]]_vars

\* the name of the request with the given id
RequestName(msgs, id) ==
    CHOOSE n \in EmittedNames :
        \E k \in 1..Len(msgs) :
            \E i \in 1..Len(msgs[k].tool_calls) :
                msgs[k].tool_calls[i] = [id |-> id, name |-> n]

PlainAnswer(m) == m.role = "assistant" /\ m.tool_calls = <<>>

\* C14 as claimed: a turn whose Router answered SearchAgent at every
\* decision has, once its run is over, a plain-text assistant message as
\* last message, and never entered CartAgent or CartTools.
C14_ConstantRouterEndsWithAnswer ==
    \A s \in Sessions :
        (decisions[s] = {"SearchAgent"} /\ status[s] \in {"done", "error"}) =>
            /\ PlainAnswer(LastMessage(s))
            /\ pc[s] \notin {"CartAgent", "CartTools"}

\* C14 as the code has it: a turn whose Router never answered CartAgent
\* never is in CartAgent or CartTools; each of its tool results answers a
\* request for a search tool or is the ToolNode's refusal of a name that is
\* not among the search tools; and when the Router, after SearchAgent,
\* answers FINISH, the last message of the finished turn is an assistant
\* message without tool calls.
C14_SearchOnlyTurn ==
    \A s \in Sessions :
        (turns[s] > 0 /\ "CartAgent" \notin decisions[s]) =>
            /\ pc[s] \notin {"CartAgent", "CartTools"}
            /\ \A k \in (TurnStart(s) + 1)..Len(messages[s]) :
                  messages[s][k].role = "tool" =>
                      \/ RequestName(messages[s], messages[s][k].tool_call_id)
                            \in search_tools(graph)
                      \/ messages[s][k].content = "Error: not a valid tool"
            /\ (status[s] = "done" /\ "SearchAgent" \in decisions[s]) =>
                  PlainAnswer(LastMessage(s))

\* Scenario A: Router SearchAgent, a vector_search result, the answer,
\* Router FINISH
C14_Witness ==
    \E s \in Sessions :
        /\ status[s] = "done"
        /\ decisions[s] = {"SearchAgent", "FINISH"}
        /\ turns[s] = 1
        /\ PlainAnswer(LastMessage(s))
        /\ \E k \in 2..Len(messages[s]) :
              /\ messages[s][k].role = "tool"
              /\ messages[s][k].content = "<products>"

\* C15: a new turn starts from the state the session has stored: its
\* first Supervisor step finds the complete message sequence the previous
\* turn left, followed by the new user message, at every turn.
C15_TurnResumesFromPriorState ==
    [][\A s \in Sessions :
        turns'[s] = turns[s] + 1 =>
            /\ \E text \in UserInputs :
                  messages'[s] = messages[s] \o <<HumanMessage(text)>>
            /\ pc'[s] = "Supervisor"
            /\ status'[s] = "running"
            /\ stepCount'[s] = 0]_vars

\* the second turn is about to run its first Supervisor step on the
\* messages of the first turn, a tool cycle among them, and its own input
C15_Witness ==
    \E s \in Sessions :
        /\ turns[s] = 2
        /\ pc[s] = "Supervisor" /\ Running(s) /\ stepCount[s] = 0
        /\ Len(messages[s]) >= 5
        /\ LastMessage(s).role = "user"
        /\ messages[s][1].role = "user"
        /\ \E k \in 2..(Len(messages[s]) - 1) : messages[s][k].role = "tool"

----------------------------------------------------------------------------
(* Sessions *)

\* everything the application holds for session s
SessionState(s) ==
    <<messages[s], next[s], pc[s], status[s], stepCount[s], totalSteps[s],
      turns[s], completed[s], routerText[s], handler[s], sent[s], decisions[s],
      modelInput[s]>>

\* C16: under every interleaving of the steps of two sessions with
\* distinct thread_ids, a step that changes anything of one session leaves
\* the messages, the `next` field and everything else stored or pending
\* for the other session as they were, so each session proceeds from its
\* own state alone.
C16_SessionsIndependent ==
    [][\A a, b \in Sessions :
        (a # b /\ SessionState(a)' # SessionState(a)) =>
            SessionState(b)' = SessionState(b)]_vars

\* the two sessions are in the middle of their turns at different nodes:
\* one has a tool call of its Tools step finished, the other was sent to
\* the other specialist
C16_Witness ==
    /\ Running("t1") /\ Running("t2")
    /\ pc["t1"] \in ToolsNodes /\ completed["t1"] # <<>>
    /\ pc["t2"] \in Specialists
    /\ next["t1"] # next["t2"]
    /\ Len(messages["t1"]) = 2 /\ Len(messages["t2"]) = 1

\* C17 as claimed: of two turns of one session handled at overlapping
\* times, never two steps are in progress at the same time.
C17_StepsSerialized ==
    \A q, r \in RunIds :
        (runs[q].phase = "in_step" /\ runs[r].phase = "in_step") => q = r

\* C18 as claimed: when two turns update the same session, no message a
\* turn has appended is lost or overwritten: every message a started run
\* has put into the store is in the stored sequence.
C18_NoLostUpdate ==
    \A r \in RunIds :
        runs[r].phase # "none" =>
            /\ Len(runs[r].msgs) <= Len(messages[thread_id(OverlapSession)])
            /\ Range(runs[r].msgs) \subseteq
                    Range(messages[thread_id(OverlapSession)])

\* C19 as claimed: the stored state of a session changes only when a step
\* completes or a turn brings its input; whatever else happens in between
\* (a step that fails, the step ceiling, a crash of the process) leaves in
\* the store the state the last completed step wrote, for a resumed run to
\* continue from.
C19_CheckpointSurvivesCrash ==
    [][\A s \in Sessions :
        (totalSteps'[s] = totalSteps[s] /\ turns'[s] = turns[s]) =>
            <<messages[s], next[s], pc[s]>>' = <<messages[s], next[s], pc[s]>>]_vars

----------------------------------------------------------------------------
(* The tool server *)

\* C20: a request for one of the nine tools that lacks a field the tool
\* declares as required invokes no SAPOCCClient method, and its answer is
\* text content that carries the error.
C20_MissingRequiredNeverDispatched ==
    (server.name \in ServerTools /\ ~(Required(server.name) \subseteq server.args)) =>
        /\ server.called = {}
        /\ server.isText
        /\ server.text = "Error: <KeyError>"

\* add_to_cart without product_code, against a backend that would answer
C20_Witness ==
    /\ server.name = "add_to_cart"
    /\ server.args = {"cart_id", "quantity"}
    /\ server.backend = "ok"
    /\ server.called = {}
    /\ server.text = "Error: <KeyError>"

----------------------------------------------------------------------------
(* Calls that never answer, cancellation *)

\* C21 as claimed: no external call blocks a turn: a run that has not
\* ended, and is within the steps followed, can always take its next step
\* or be ended by the step ceiling.
C21_NoCallBlocksTheTurn ==
    \A s \in Sessions :
        (status[s] \in {"running", "blocked"} /\ Followed(s)) =>
            ENABLED (NodeStep(s) \/ StepLimit(s))

\* the tool results that stand directly behind message k, at most n
ResultsBehind(msgs, k, n) ==
    Cardinality({j \in 1..n :
                    /\ k + j <= Len(msgs)
                    /\ \A i \in 1..j : msgs[k + i].role = "tool"})

\* every assistant message with tool calls has behind it either none of
\* the results of its Tools step or all of them
StoredComplete(s) ==
    \A k \in 1..Len(messages[s]) :
        LET calls == messages[s][k].tool_calls IN
        calls # <<>> =>
            ResultsBehind(messages[s], k, Len(calls)) \in {0, Len(calls)}

----------------------------------------------------------------------------
(* The transition graph *)

\* a node of the run of s has returned: the step is counted
StepDone(s) == Running(s) /\ stepCount'[s] = stepCount[s] + 1

\* C23: a Supervisor step goes to SearchAgent when the decision is
\* SearchAgent, to CartAgent when it is CartAgent and to Done when it is
\* FINISH, and nowhere else; a turn starts at Supervisor; and a run
\* becomes Done by a Supervisor step only.
C23_SupervisorTransitions ==
    [][\A s \in Sessions :
        /\ (StepDone(s) /\ pc[s] = "Supervisor") =>
              \/ (next'[s] = "SearchAgent" /\ pc'[s] = "SearchAgent" /\ Running(s)')
              \/ (next'[s] = "CartAgent" /\ pc'[s] = "CartAgent" /\ Running(s)')
              \/ (next'[s] = "FINISH" /\ pc'[s] = "END" /\ status'[s] = "done")
        /\ turns'[s] = turns[s] + 1 => pc'[s] = "Supervisor"
        /\ (status'[s] = "done" /\ status[s] # "done") =>
              (Running(s) /\ pc[s] = "Supervisor")
        /\ (pc'[s] = "END" /\ pc[s] # "END") => pc[s] = "Supervisor"]_vars

\* one turn in which the Supervisor took each of its three edges
C23_Witness ==
    \E s \in Sessions :
        /\ turns[s] = 1
        /\ decisions[s] = {"SearchAgent", "CartAgent", "FINISH"}
        /\ pc[s] = "END" /\ status[s] = "done"

\* C24: an Agent Node step goes to its own Tools node exactly when the
\* message it added has tool calls and to Supervisor exactly when it has
\* none; a specialist never goes to the other specialist, to the other
\* Tools node or to Done.
C24_AgentEdges ==
    [][\A s \in Sessions :
        /\ (StepDone(s) /\ pc[s] \in Specialists) =>
              /\ LastMessage(s)'.tool_calls # <<>> <=>
                    pc'[s] = (IF pc[s] = "SearchAgent" THEN "SearchTools" ELSE "CartTools")
              /\ LastMessage(s)'.tool_calls = <<>> <=> pc'[s] = "Supervisor"
              /\ Running(s)'
        /\ (Running(s) /\ pc[s] = "SearchAgent") =>
              pc'[s] \in {"SearchAgent", "SearchTools", "Supervisor"}
        /\ (Running(s) /\ pc[s] = "CartAgent") =>
              pc'[s] \in {"CartAgent", "CartTools", "Supervisor"}]_vars

\* CartAgent asked for tools and the run is at CartTools; earlier in the
\* turn SearchAgent answered without tool calls and the run went back to
\* Supervisor
C24_Witness ==
    \E s \in Sessions :
        /\ Running(s) /\ pc[s] = "CartTools"
        /\ LastMessage(s).tool_calls # <<>>
        /\ decisions[s] = {"SearchAgent", "CartAgent"}
        /\ Len(messages[s]) = 3
        /\ PlainAnswer(messages[s][2])

\* C25: a Tools step ends in the paired specialist, SearchTools in
\* SearchAgent and CartTools in CartAgent, with the run still running,
\* whether its tools succeeded or failed; a Tools node goes nowhere else.
C25_ToolsEdge ==
    [][\A s \in Sessions :
        (Running(s) /\ pc[s] \in ToolsNodes /\ Moved(s)) =>
            /\ HasBudget(s) => Running(s)'
            /\ pc[s] = "SearchTools" => pc'[s] \in {"SearchTools", "SearchAgent"}
            /\ pc[s] = "CartTools" => pc'[s] \in {"CartTools", "CartAgent"}
            /\ StepDone(s) => pc'[s] \in Specialists]_vars

\* SearchTools, whose vector_search raised, has handed over to SearchAgent
C25_Witness ==
    \E s \in Sessions :
        /\ Running(s) /\ pc[s] = "SearchAgent"
        /\ LastMessage(s).role = "tool"
        /\ LastMessage(s).content = "Error: <exception> Please fix your mistakes."
        /\ \E d \in Range(completed[s]) : d.name = "vector_search" /\ d.res.raised

\* C26: the steps of the loop Agent -> Tools -> Agent are counted against
\* the step budget like every other step, the run never exceeds the
\* budget, and a run in that loop that has used the budget up does
\* nothing but end in the error state, its stored state untouched.
C26_ToolLoopCounted ==
    [][\A s \in Sessions :
        (Running(s) /\ pc[s] \in Specialists \cup ToolsNodes) =>
            /\ pc'[s] # pc[s] =>
                  /\ stepCount'[s] = stepCount[s] + 1
                  /\ stepCount'[s] <= RecursionLimit
            /\ (~HasBudget(s) /\ Moved(s)) =>
                  /\ status'[s] = "error"
                  /\ <<messages[s], next[s], pc[s]>>' = <<messages[s], next[s], pc[s]>>]_vars

\* after one Router decision the specialist asked for tools at each of
\* its steps, and the ceiling ended the run behind the second Tools step
C26_Witness ==
    \E s \in Sessions :
        /\ status[s] = "error"
        /\ turns[s] = 1
        /\ stepCount[s] = RecursionLimit
        /\ Cardinality(decisions[s]) = 1
        /\ Len(messages[s]) = RecursionLimit
        /\ pc[s] \in Specialists
        /\ \A k \in 2..Len(messages[s]) : ~PlainAnswer(messages[s][k])

\* C27 as claimed: a Supervisor step, the one whose model call fails
\* included, never ends the run in the error state: the run goes on or is
\* Done.
C27_RouterFailureKeepsTurn ==
    [][\A s \in Sessions :
        (Running(s) /\ pc[s] = "Supervisor" /\ HasBudget(s)) =>
            status'[s] \in {"running", "done"}]_vars

\* C28 as claimed: the model of every Supervisor step and of every Agent
\* Node step, in both graph implementations, is given the last W messages
\* of the stored sequence, all of them when there are fewer.
C28_ModelInputIsWindow ==
    [][\A s \in Sessions :
        (Running(s) /\ pc[s] \in {"Supervisor"} \cup Specialists
            /\ HasBudget(s) /\ Moved(s)) =>
            modelInput'[s] = Window(messages[s])]_vars

\* C29: an Agent Node step adds exactly one message, an assistant
\* message, and runs no tool; a tool runs only while its session is in a
\* Tools node.
C29_AgentNodeRunsNoTool ==
    [][/\ \A s \in Sessions :
            (StepDone(s) /\ pc[s] \in Specialists) =>
                /\ Len(Added(s)) = 1
                /\ Added(s)[1].role = "assistant"
                /\ invoked' = invoked
                /\ completed'[s] = <<>>
       /\ invoked' # invoked =>
            \E s \in Sessions :
                Running(s) /\ pc[s] \in ToolsNodes /\ pc'[s] = pc[s]]_vars

\* SearchAgent has asked for two tools and none has run
C29_Witness ==
    \E s \in Sessions :
        /\ Running(s) /\ pc[s] = "SearchTools"
        /\ stepCount[s] = 2
        /\ Len(LastMessage(s).tool_calls) = 2
        /\ completed[s] = <<>>
        /\ \A id \in CallIds : invoked[id] = 0

\* the Tools node whose calls `completed` holds
StepTools(s) == IF pc[s] \in ToolsNodes THEN pc[s] ELSE ToolsOf(pc[s])

SearchName(name) == "search" \in NameParts(name) \/ "details" \in NameParts(name)

CartName(name) == "cart" \in NameParts(name) \/ "order" \in NameParts(name)

\* C30: a tool that ran in SearchTools has "search" or "details" in its
\* name (vector_search among them), a tool that ran in CartTools has
\* "cart" or "order"; no tool is in both subsets; and a request that names
\* a tool outside the subset of its Tools node runs nothing and is
\* answered with the node's error.
C30_ToolsWithinBoundSubset ==
    /\ \A g \in Impls :
          /\ \A name \in search_tools(g) : SearchName(name) /\ ~CartName(name)
          /\ \A name \in cart_tools(g) : CartName(name) /\ ~SearchName(name)
    /\ \A s \in Sessions :
          \A d \in Range(completed[s]) :
              /\ pc[s] \in ToolsNodes \cup Specialists
              /\ d.res.invoked =>
                    /\ StepTools(s) = "SearchTools" => SearchName(d.name)
                    /\ StepTools(s) = "CartTools" => CartName(d.name)
              /\ ((StepTools(s) = "SearchTools" /\ ~SearchName(d.name))
                    \/ (StepTools(s) = "CartTools" /\ ~CartName(d.name))) =>
                    /\ ~d.res.invoked
                    /\ d.res.content = "Error: not a valid tool"

\* SearchAgent asked for add_to_cart and vector_search: SearchTools ran
\* vector_search and refused add_to_cart
C30_Witness ==
    \E s \in Sessions :
        /\ pc[s] = "SearchTools"
        /\ \E d \in Range(completed[s]) : d.name = "add_to_cart" /\ ~d.res.invoked
        /\ \E d \in Range(completed[s]) : d.name = "vector_search" /\ d.res.invoked

----------------------------------------------------------------------------
(* The join of a Tools step *)

\* C31: while a call of a Tools step has not finished, the run stays in
\* the Tools node and the stored messages do not change; in a Tools node
\* the last stored message is the assistant message with the requests and
\* no result of them is stored; and the step that leaves the Tools node
\* is taken when every call has finished.
C31_JoinBeforeTransition ==
    [][\A s \in Sessions :
        /\ (Running(s) /\ pc[s] \in ToolsNodes /\ PendingCalls(s) # {}) =>
              /\ pc'[s] = pc[s]
              /\ messages'[s] = messages[s]
        /\ (Running(s)' /\ pc'[s] \in ToolsNodes) =>
              /\ LastMessage(s)'.tool_calls # <<>>
              /\ \A i \in 1..Len(LastMessage(s)'.tool_calls) :
                    ~HasResult(messages'[s], LastMessage(s)'.tool_calls[i].id)
        /\ ToolsStepEnds(s) =>
              /\ PendingCalls(s) = {}
              /\ Len(completed[s]) = Len(LastMessage(s).tool_calls)]_vars

\* a Tools step of two calls: the second call has finished, with an error,
\* the first has not, and the run is still in the Tools node
C31_Witness ==
    \E s \in Sessions :
        /\ Running(s) /\ pc[s] \in ToolsNodes
        /\ Len(LastMessage(s).tool_calls) = 2
        /\ Len(completed[s]) = 1
        /\ completed[s][1].idx = 2
        /\ completed[s][1].res.content \in ToolErrorContents
        /\ PendingCalls(s) = {1}

----------------------------------------------------------------------------
(* The next field *)

\* C32: a Supervisor step that returns leaves in `next` the decision it
\* has just made, one of SearchAgent, CartAgent, FINISH; an Agent Node
\* step and a Tools step leave `next` as it was; `next` changes in a
\* Supervisor step only.
C32_NextIsLastDecision ==
    [][\A s \in Sessions :
        /\ (StepDone(s) /\ pc[s] = "Supervisor") =>
              /\ next'[s] \in {"SearchAgent", "CartAgent", "FINISH"}
              /\ next'[s] = Decide(Strip(routerText'[s]))
        /\ (Running(s) /\ pc[s] \in Specialists \cup ToolsNodes) =>
              next'[s] = next[s]
        /\ next'[s] # next[s] =>
              (Running(s) /\ pc[s] = "Supervisor" /\ StepDone(s))]_vars

\* the Router chose SearchAgent, then CartAgent; CartAgent and CartTools
\* have run since and `next` still names CartAgent
C32_Witness ==
    \E s \in Sessions :
        /\ Running(s) /\ pc[s] = "CartAgent"
        /\ LastMessage(s).role = "tool"
        /\ decisions[s] = {"SearchAgent", "CartAgent"}
        /\ next[s] = "CartAgent"
        /\ Decide(Strip(routerText[s])) = "CartAgent"

----------------------------------------------------------------------------
(* The two graph implementations *)

\* C33 as claimed: the graphs built by agent_logic.py and agent_graph.py
\* are the same state machine: wherever an Agent Node is about to run,
\* each answer of the model, a failure of the call among them, makes the
\* node of either implementation return the same update and leave the run
\* in the same state, and the edge taken behind it is the same.
C33_SameStateMachine ==
    \A s \in Sessions :
        (Running(s) /\ pc[s] \in Specialists /\ HasBudget(s)) =>
            \A response \in AgentResponses :
                LET logic == agent_node("agent_logic", response, nextId)
                    other == agent_node("agent_graph", response, nextId)
                IN  /\ logic.raised = other.raised
                    /\ logic.messages = other.messages
                    /\ ~logic.raised =>
                          AgentEdge(pc[s], AddMessages(messages[s], logic.messages))
                            = AgentEdge(pc[s], AddMessages(messages[s], other.messages))

----------------------------------------------------------------------------
(* The message a finished turn ends with *)

\* C34 as claimed: when a turn has reached Done, the last stored message,
\* whose content on_message sends, is an assistant message without tool
\* calls that stands behind the user message of that turn; it is never
\* the user message itself.
C34_DoneEndsWithAnswerOfTheTurn ==
    \A s \in Sessions :
        (status[s] = "done" /\ pc[s] = "END") =>
            /\ LastMessage(s).role = "assistant"
            /\ LastMessage(s).tool_calls = <<>>
            /\ TurnStart(s) < Len(messages[s])

----------------------------------------------------------------------------
(* The start of a turn *)

\* C35: a new turn starts at Supervisor with the stored `next` untouched,
\* whatever it names; until the Router has decided in the turn the run is
\* at Supervisor; the turn does not become Done before the Router has
\* answered FINISH in it, and it does not enter a specialist that the
\* Router has not chosen in it.
C35_TurnStartsAtSupervisor ==
    [][\A s \in Sessions :
        /\ turns'[s] = turns[s] + 1 =>
              /\ pc'[s] = "Supervisor"
              /\ Running(s)'
              /\ next'[s] = next[s]
              /\ decisions'[s] = {}
        /\ (Running(s)' /\ decisions'[s] = {}) => pc'[s] = "Supervisor"
        /\ (status'[s] = "done" /\ status[s] # "done") => "FINISH" \in decisions'[s]
        /\ (Running(s)' /\ pc'[s] \in Specialists) =>
              (StepTools(s)' = "SearchTools" => "SearchAgent" \in decisions'[s])
              /\ (StepTools(s)' = "CartTools" => "CartAgent" \in decisions'[s])]_vars

\* the second turn of a session has started: the first turn ended with
\* FINISH, which `next` still holds, and the run is at Supervisor
C35_Witness ==
    \E s \in Sessions :
        /\ turns[s] = 2
        /\ Running(s) /\ pc[s] = "Supervisor"
        /\ stepCount[s] = 0
        /\ decisions[s] = {}
        /\ next[s] = "FINISH"

----------------------------------------------------------------------------
(* The completion sentinel in the Router text *)

\* the lower-case spelling of a specialist name
LowerCaseNames == {<<"search", "agent">>}

\* C36: a response text that holds FINISH and a specialist name is
\* decided as a specialist and the run does not end; the decision is
\* FINISH only for a text without a specialist name; and a text with a
\* lower-case spelling of a name, and no name in its own spelling, is
\* decided as FINISH.
C36_NameOverridesFinish ==
    \A s \in Sessions :
        RouterAnswered(s) =>
            /\ (Contains(routerText[s], FinishName)
                    /\ (Contains(routerText[s], SearchAgentName)
                          \/ Contains(routerText[s], CartAgentName))) =>
                  (next[s] \in Specialists /\ pc[s] = next[s] /\ status[s] # "done")
            /\ next[s] = "FINISH" =>
                  (~Contains(routerText[s], SearchAgentName)
                      /\ ~Contains(routerText[s], CartAgentName))
            /\ ((\E low \in LowerCaseNames : Contains(routerText[s], low))
                    /\ ~Contains(routerText[s], SearchAgentName)
                    /\ ~Contains(routerText[s], CartAgentName)) =>
                  (next[s] = "FINISH" /\ pc[s] = "END")

\* the Router answered "SearchAgent FINISH" and the run is at SearchAgent
C36_Witness ==
    \E s \in Sessions :
        /\ routerText[s] = <<"Search", "Agent", " ", "FINISH">>
        /\ next[s] = "SearchAgent"
        /\ Running(s) /\ pc[s] = "SearchAgent"

----------------------------------------------------------------------------
(* A failing model call in the Agent Node of agent_logic.py *)

\* the message agent_node of agent_logic.py answers a failed call with
AgentErrorText == "Error executing agent logic: <exception>"

\* an Agent Node of the current turn of s has answered with that message
AgentFailed(s) ==
    \E k \in (TurnStart(s) + 1)..Len(messages[s]) :
        messages[s][k].content = AgentErrorText

\* C37 as claimed: in the graph of agent_logic.py the message added for
\* a failed model call has no tool calls and the step goes to Supervisor
\* with the run still running, never to a Tools node; and a run in which
\* an Agent Node has failed ends only Done by a FINISH decision or in
\* the error state at the step ceiling.
C37_AgentFailureCyclesToSupervisor ==
    [][\A s \in Sessions :
        graph = "agent_logic" =>
            /\ (StepDone(s) /\ pc[s] \in Specialists
                    /\ LastMessage(s)'.content = AgentErrorText) =>
                  /\ LastMessage(s)'.tool_calls = <<>>
                  /\ pc'[s] = "Supervisor"
                  /\ Running(s)'
            /\ (Running(s) /\ AgentFailed(s) /\ ~Running(s)') =>
                  \/ (status'[s] = "done" /\ next'[s] = "FINISH")
                  \/ (status'[s] = "error" /\ ~HasBudget(s))]_vars

----------------------------------------------------------------------------
(* Well-formedness of the message sequence *)

\* message j of msgs holds the request that the tool result k answers
Requests(msgs, j, k) ==
    /\ msgs[j].role = "assistant"
    /\ \E i \in 1..Len(msgs[j].tool_calls) :
          msgs[j].tool_calls[i].id = msgs[k].tool_call_id

\* the position of the last assistant message of msgs, 0 when it has none
LastAssistant(msgs) ==
    IF \E k \in 1..Len(msgs) : msgs[k].role = "assistant"
    THEN CHOOSE k \in 1..Len(msgs) :
            /\ msgs[k].role = "assistant"
            /\ \A j \in (k + 1)..Len(msgs) : msgs[j].role # "assistant"
    ELSE 0

\* C38: every stored tool result has before it the assistant message
\* that holds its request, and between the two stand only tool results
\* of requests of that same message; and when a specialist is to run
\* behind its Tools node, every request of the last assistant message
\* has its result behind that message.
C38_WellFormedToolCalls ==
    \A s \in Sessions :
        LET msgs == messages[s] IN
        /\ \A k \in 1..Len(msgs) :
              msgs[k].role = "tool" =>
                  \E j \in 1..(k - 1) :
                      /\ Requests(msgs, j, k)
                      /\ \A l \in (j + 1)..(k - 1) :
                            msgs[l].role = "tool" /\ Requests(msgs, j, l)
        /\ (Running(s) /\ pc[s] \in Specialists /\ msgs[Len(msgs)].role = "tool") =>
              LET j == LastAssistant(msgs) IN
              /\ j > 0
              /\ \A i \in 1..Len(msgs[j].tool_calls) :
                    \E k \in (j + 1)..Len(msgs) :
                        /\ msgs[k].role = "tool"
                        /\ msgs[k].tool_call_id = msgs[j].tool_calls[i].id

\* two Tools steps in one turn: the result of the first stands between
\* the two assistant messages with requests, the result of the second is
\* the last message, and the specialist is to run
C38_Witness ==
    \E s \in Sessions :
        /\ Running(s) /\ pc[s] \in Specialists
        /\ Len(messages[s]) = 5
        /\ messages[s][2].tool_calls # <<>>
        /\ messages[s][3].role = "tool"
        /\ messages[s][4].tool_calls # <<>>
        /\ messages[s][5].role = "tool"
        /\ messages[s][5].tool_call_id # messages[s][3].tool_call_id

----------------------------------------------------------------------------
(* The window over a history with tool results.  A session is followed    *)
(* from the state in which a first turn left it: the user asked, the       *)
(* Router chose SearchAgent, SearchAgent called vector_search, answered,   *)
(* and the Router finished.  The steps and the turn before that state are  *)
(* not counted in totalSteps and turns, so the session is followed for     *)
(* MaxSteps further steps.                                                 *)

FirstTurnMessages ==
    <<HumanMessage("Find me a digital camera"),
      AIMessage("", MakeCalls(<<"vector_search">>, 1)),
      ToolMessage("<products>", 1),
      AIMessage("<answer>", <<>>)>>

WindowInit ==
    /\ graph \in Impls
    /\ messages = [s \in Sessions |-> IF s \in Solo THEN FirstTurnMessages ELSE <<>>]
    /\ next = [s \in Sessions |-> IF s \in Solo THEN "FINISH" ELSE ""]
    /\ pc = [s \in Sessions |-> "END"]
    /\ status = [s \in Sessions |-> IF s \in Solo THEN "done" ELSE "idle"]
    /\ stepCount = [s \in Sessions |-> IF s \in Solo THEN 5 ELSE 0]
    /\ totalSteps = [s \in Sessions |-> 0]
    /\ turns = [s \in Sessions |-> 0]
    /\ completed = [s \in Sessions |-> <<>>]
    /\ invoked = [c \in CallIds |-> IF c = 1 THEN 1 ELSE 0]
    /\ nextId = 2
    /\ routerText = [s \in Sessions |-> IF s \in Solo THEN FinishName ELSE NoText]
    /\ handler = [s \in Sessions |-> "idle"]
    /\ sent = [s \in Sessions |-> IF s \in Solo THEN <<"<answer>">> ELSE <<>>]
    /\ decisions = [s \in Sessions |->
                      IF s \in Solo THEN {"SearchAgent", "FINISH"} ELSE {}]
    /\ modelInput = [s \in Sessions |->
                       IF s \in Solo THEN ModelInput(graph, FirstTurnMessages) ELSE <<>>]
    /\ runs = [r \in RunIds |-> NoRun]
    /\ server = NoRequest

WindowSpec == WindowInit /\ [][Next]_vars

\* C39 as claimed: every tool result among the messages passed to the
\* model has, before it among those messages, the assistant message that
\* holds its request.
C39_WindowKeepsRequestWithResult ==
    \A s \in Sessions :
        \A k \in 1..Len(modelInput[s]) :
            modelInput[s][k].role = "tool" =>
                \E j \in 1..(k - 1) : Requests(modelInput[s], j, k)

====
